---- MODULE Spec2Model ----
(***************************************************************************)
(* Model of aemet/cli.py: the two-step fetch with retry, the 15-day batch  *)
(* planner and the write-if-absent file archive.                           *)
(*                                                                         *)
(* Dates are day ordinals (day 1 = 2024-01-01); timedelta(days=n) is +n.   *)
(* A record of the remote payload is [fecha, indicativo]; fecha = 0 and    *)
(* indicativo = "" stand for a missing (falsy) field.  The content of a    *)
(* file is the position of the record it was dumped from in the remote     *)
(* payload, so two records of the same key are told apart.                 *)
(***************************************************************************)
EXTENDS Integers, Sequences, FiniteSets, TLC

\* ---------------------------------------------------------------- constants
BATCH_SIZE_DAYS == 15
MAX_RETRIES == 5
INITIAL_BACKOFF == 1

\* ------------------------------------------------------------------- bounds
\* longest remote payload (records) and station inventory
MaxRecords == 3
\* latest end date of the intervals of SpecPlan
MaxDay == 31
\* largest max_retries argument of SpecFetch
MaxRetriesArg == 6

Stations == {"A", "B"}

VARIABLES
  \* ---- the environment: requested interval, remote data
  start_date, end_date, remote, inventory,
  \* ---- the archive: path -> content (0 while the file is open and empty)
  files,
  \* ---- one run of cmd_estaciones / cmd_valores_climatologicos
  cmd, pc, current, batch_end, todo, writing,
  \* ---- history
  windows, fetched, snap, okRuns, interrupted,
  \* ---- one call of fetch_with_retry
  max_retries, fpc, attempt, backoff, nreq1, nreq2, waits, first, n429,
  nfail2, fresult, ntransient, nlatin1

pvars == <<start_date, end_date, remote, inventory, files, cmd, pc, current,
           batch_end, todo, writing, windows, fetched, snap, okRuns,
           interrupted>>
fvars == <<max_retries, fpc, attempt, backoff, nreq1, nreq2, waits, first,
           n429, nfail2, fresult, ntransient, nlatin1>>
vars == <<pvars, fvars>>

\* ------------------------------------------------------------ archive store
\* a file that open(path, "w") has created and json.dump has not yet filled
Partial == 0
NoKey == <<"none", 0, "">>
EmptyArchive == [k \in {} |-> Partial]

StationKey(indicativo) == <<"est", 0, indicativo>>
DayKey(date, indicativo) == <<"val", date, indicativo>>

\* file_path.exists()
PathExists(k) == k \in DOMAIN files

\* check_date_exists: the day directory exists and holds some *.json
check_date_exists(date) ==
  \E k \in DOMAIN files : k[1] = "val" /\ k[2] = date

\* mutant: the short-circuit test is lost
AnyStationFileNever == FALSE

\* cmd_estaciones: stations_dir.exists() and any(stations_dir.glob("*.json"))
AnyStationFile == \E k \in DOMAIN files : k[1] = "est"

\* mutant: the file is written whether it exists or not
AlwaysWrite(k) == TRUE

\* the write-if-absent test of save_station_info / save_daily_data_by_station
ShouldWrite(k) == ~PathExists(k)


\* ------------------------------------------------------------------ grouping
Front(s) == SubSeq(s, 1, Len(s) - 1)
Last(s) == s[Len(s)]

\* an insertion-ordered dict is a sequence of [key, val]
HasKey(d, k) == \E i \in 1..Len(d) : d[i].key = k

\* mutant: d.setdefault(k, v), the first value of a key stays
DictSetFirstWins(d, k, v) ==
  IF HasKey(d, k) THEN d ELSE Append(d, [key |-> k, val |-> v])

\* d[k] = v : a new key goes last, a known key keeps its place
DictSet(d, k, v) ==
  IF HasKey(d, k)
  THEN [i \in 1..Len(d) |-> IF d[i].key = k THEN [key |-> k, val |-> v] ELSE d[i]]
  ELSE Append(d, [key |-> k, val |-> v])

\* mutant: grouped[k] = [r], a date keeps its last record only
DictAppendLastOnly(d, k, r) ==
  IF HasKey(d, k)
  THEN [i \in 1..Len(d) |->
          IF d[i].key = k THEN [key |-> k, val |-> <<r>>] ELSE d[i]]
  ELSE Append(d, [key |-> k, val |-> <<r>>])

\* d.setdefault(k, []).append(r)
DictAppend(d, k, r) ==
  IF HasKey(d, k)
  THEN [i \in 1..Len(d) |->
          IF d[i].key = k THEN [key |-> k, val |-> Append(d[i].val, r)] ELSE d[i]]
  ELSE Append(d, [key |-> k, val |-> <<r>>])

\* group_by_date: records without fecha are left out
RECURSIVE group_by_date(_)
group_by_date(data) ==
  IF data = <<>> THEN <<>>
  ELSE LET grouped == group_by_date(Front(data))
           record == Last(data)
       IN IF record.fecha # 0
          THEN DictAppend(grouped, record.fecha, record)
          ELSE grouped

\* mutant: a record without indicativo is kept
RECURSIVE stations_data_unchecked(_)
stations_data_unchecked(data) ==
  IF data = <<>> THEN <<>>
  ELSE DictSet(stations_data_unchecked(Front(data)), Last(data).indicativo,
               Last(data))

\* the "Group data by station" loop of save_daily_data_by_station
RECURSIVE stations_data(_)
stations_data(data) ==
  IF data = <<>> THEN <<>>
  ELSE LET d == stations_data(Front(data))
           record == Last(data)
       IN IF record.indicativo # ""
          THEN DictSet(d, record.indicativo, record)
          ELSE d

\* the files save_daily_data_by_station(date, data) goes through, in order
DailyTodo(date, data) ==
  LET sd == stations_data(data)
  IN [i \in 1..Len(sd) |-> [key |-> DayKey(date, sd[i].key), id |-> sd[i].val.id]]

\* the loop over daily_groups.items() of process_date_range
RECURSIVE BatchTodo(_)
BatchTodo(groups) ==
  IF groups = <<>> THEN <<>>
  ELSE DailyTodo(Head(groups).key, Head(groups).val) \o BatchTodo(Tail(groups))

\* fetch_station_info: {s["indicativo"]: s for s in stations}
RECURSIVE StationDict(_)
StationDict(stations) ==
  IF stations = <<>> THEN <<>>
  ELSE DictSet(StationDict(Front(stations)), Last(stations).indicativo,
               Last(stations))

\* s["indicativo"] raises KeyError for a station without the field
StationKeyError(stations) ==
  \E i \in 1..Len(stations) : stations[i].indicativo = ""

\* the files save_station_info(stations) goes through, in order
StationTodo(stations) ==
  LET sd == StationDict(stations)
  IN [i \in 1..Len(sd) |-> [key |-> StationKey(sd[i].key), id |-> sd[i].val.id]]

\* ------------------------------------------------------------- remote service
WithId(seq) ==
  [i \in 1..Len(seq) |->
     [fecha |-> seq[i].fecha, indicativo |-> seq[i].indicativo, id |-> i]]

\* what the remote answers for the window lo..hi: its records dated in the
\* window, and those that carry no date at all
WindowPayload(lo, hi) ==
  SelectSeq(WithId(remote), LAMBDA r : r.fecha = 0 \/ r.fecha \in lo..hi)

InventoryPayload == WithId(inventory)

\* -------------------------------------------------------------- batch planner
Min(a, b) == IF a <= b THEN a ELSE b

\* mutant: the window is one day too long
BatchEndOffByOne(cur, last) == Min(cur + BATCH_SIZE_DAYS, last)

\* batch_end = min(current + timedelta(days=BATCH_SIZE_DAYS - 1), end_date)
BatchEnd(cur, last) == Min(cur + (BATCH_SIZE_DAYS - 1), last)

\* mutant: only the first date of the window is checked
DatesNeededFirstOnly(temp_date, last) ==
  IF check_date_exists(temp_date) THEN <<>> ELSE <<temp_date>>

\* mutant: the existence check is lost, every date is needed
DatesNeededAlways(temp_date, last) == <<temp_date>>

\* the dates_needed loop
RECURSIVE DatesNeeded(_, _)
DatesNeeded(temp_date, last) ==
  IF temp_date > last THEN <<>>
  ELSE (IF ~check_date_exists(temp_date) THEN <<temp_date>> ELSE <<>>)
       \o DatesNeeded(temp_date + 1, last)

env == <<start_date, end_date, remote, inventory>>
Running == pc \in {"check", "window", "fetch", "persist"}

\* main(): a new process runs one of the two commands
StartRun(c) ==
  /\ pc \in {"idle", "done", "failed"}
  /\ cmd' = c
  /\ pc' = IF c = "valores" THEN "window" ELSE "check"
  /\ current' = start_date
  /\ batch_end' = 0
  /\ todo' = <<>>
  /\ writing' = NoKey
  /\ windows' = <<>>
  /\ fetched' = <<>>
  /\ snap' = files
  /\ UNCHANGED <<env, files, okRuns, interrupted, fvars>>

\* cmd_estaciones: some station file exists, skip the fetch
EstacionesSkip ==
  /\ pc = "check"
  /\ AnyStationFile
  /\ pc' = "done"
  /\ okRuns' = okRuns \cup {cmd}
  /\ UNCHANGED <<env, files, cmd, current, batch_end, todo, writing, windows,
                 fetched, snap, interrupted, fvars>>

\* cmd_estaciones: no station file, fetch the inventory
EstacionesFetch ==
  /\ pc = "check"
  /\ ~AnyStationFile
  /\ pc' = "fetch"
  /\ fetched' = Append(fetched, <<0, 0>>)
  /\ snap' = files
  /\ UNCHANGED <<env, files, cmd, current, batch_end, todo, writing, windows,
                 okRuns, interrupted, fvars>>

\* process_date_range: every date of the window exists, skip it
WindowSkip ==
  /\ pc = "window" /\ current <= end_date
  /\ LET be == BatchEnd(current, end_date)
     IN /\ DatesNeeded(current, be) = <<>>
        /\ windows' = Append(windows, <<current, be>>)
        /\ batch_end' = be
        /\ current' = be + 1
  /\ snap' = files
  /\ UNCHANGED <<env, files, cmd, pc, todo, writing, fetched, okRuns,
                 interrupted, fvars>>

\* process_date_range: some date of the window is needed, fetch the window
WindowFetch ==
  /\ pc = "window" /\ current <= end_date
  /\ LET be == BatchEnd(current, end_date)
     IN /\ DatesNeeded(current, be) # <<>>
        /\ windows' = Append(windows, <<current, be>>)
        /\ fetched' = Append(fetched, <<current, be>>)
        /\ batch_end' = be
  /\ pc' = "fetch"
  /\ snap' = files
  /\ UNCHANGED <<env, files, cmd, current, todo, writing, okRuns, interrupted,
                 fvars>>

\* process_date_range: current > end_date, the loop and the command end
RangeDone ==
  /\ pc = "window" /\ current > end_date
  /\ pc' = "done"
  /\ okRuns' = okRuns \cup {cmd}
  /\ UNCHANGED <<env, files, cmd, current, batch_end, todo, writing, windows,
                 fetched, snap, interrupted, fvars>>

\* fetch_with_retry returns the payload, which is grouped for the persist pass
FetchReturns ==
  /\ pc = "fetch"
  /\ IF cmd = "valores"
     THEN /\ todo' = BatchTodo(group_by_date(WindowPayload(current, batch_end)))
          /\ pc' = "persist"
     ELSE IF StationKeyError(InventoryPayload)
          THEN todo' = <<>> /\ pc' = "failed"
          ELSE todo' = StationTodo(InventoryPayload) /\ pc' = "persist"
  /\ UNCHANGED <<env, files, cmd, current, batch_end, writing, windows,
                 fetched, snap, okRuns, interrupted, fvars>>

\* mutant: the error is swallowed and the loop goes on with the next batch
FetchRaisesSwallowed ==
  /\ pc = "fetch"
  /\ pc' = "window"
  /\ current' = batch_end + 1
  /\ UNCHANGED <<env, files, cmd, batch_end, todo, writing, windows,
                 fetched, snap, okRuns, interrupted, fvars>>

\* fetch_with_retry raises: the command prints the error and exits
FetchRaises ==
  /\ pc = "fetch"
  /\ pc' = "failed"
  /\ UNCHANGED <<env, files, cmd, current, batch_end, todo, writing, windows,
                 fetched, snap, okRuns, interrupted, fvars>>

\* the entry's file exists: nothing is written
SkipEntry ==
  /\ pc = "persist" /\ todo # <<>> /\ writing = NoKey
  /\ ~ShouldWrite(Head(todo).key)
  /\ todo' = Tail(todo)
  /\ UNCHANGED <<env, files, cmd, pc, current, batch_end, writing, windows,
                 fetched, snap, okRuns, interrupted, fvars>>

\* open(file_path, "w") creates the file, empty
OpenEntry ==
  /\ pc = "persist" /\ todo # <<>> /\ writing = NoKey
  /\ ShouldWrite(Head(todo).key)
  /\ files' = [k \in DOMAIN files \cup {Head(todo).key} |->
                 IF k = Head(todo).key THEN Partial ELSE files[k]]
  /\ writing' = Head(todo).key
  /\ UNCHANGED <<env, cmd, pc, current, batch_end, todo, windows, fetched,
                 snap, okRuns, interrupted, fvars>>

\* json.dump fills the file and the with block closes it
DumpEntry ==
  /\ pc = "persist" /\ writing # NoKey
  /\ files' = [files EXCEPT ![writing] = Head(todo).id]
  /\ writing' = NoKey
  /\ todo' = Tail(todo)
  /\ UNCHANGED <<env, cmd, pc, current, batch_end, windows, fetched, snap,
                 okRuns, interrupted, fvars>>

\* the persist pass is over: next batch, or the end of cmd_estaciones
PersistDone ==
  /\ pc = "persist" /\ todo = <<>>
  /\ IF cmd = "valores"
     THEN current' = batch_end + 1 /\ pc' = "window" /\ okRuns' = okRuns
     ELSE current' = current /\ pc' = "done" /\ okRuns' = okRuns \cup {cmd}
  /\ UNCHANGED <<env, files, cmd, batch_end, todo, writing, windows, fetched,
                 snap, interrupted, fvars>>

\* the process is killed: whatever is on disk stays as it is
Interrupt ==
  /\ Running
  /\ pc' = "idle"
  /\ todo' = <<>>
  /\ writing' = NoKey
  /\ interrupted' = TRUE
  /\ UNCHANGED <<env, files, cmd, current, batch_end, windows, fetched, snap,
                 okRuns, fvars>>


\* ----------------------------------------------------------- fetch_with_retry
\* status codes the remote answers with; 0 stands for a request that raises
\* (connection error, timeout)
Statuses == {200, 204, 404, 429, 500, 504}
NetworkError == 0
NoResponse == -1

\* a body is utf-8 JSON, latin-1 JSON with a non-ASCII byte, or no JSON at
\* all; datos tells whether the decoded JSON is a dict with a "datos" key
Bodies == [enc : {"utf8", "latin1", "notjson"}, datos : BOOLEAN]
NoResult == [hop |-> 0, enc |-> "none"]

\* response.json(): "ok", or the exception it raises
ResponseJson(body) ==
  CASE body.enc = "utf8" -> "ok"
    [] body.enc = "latin1" -> "UnicodeDecodeError"
    [] OTHER -> "JSONDecodeError"

\* json.loads(content.decode("latin-1"))
Latin1Json(body) ==
  IF body.enc = "notjson" THEN "JSONDecodeError" ELSE "ok"

\* the statuses of the elif branch
RetriableStatus(status) == status \in {429, 500, 502, 503}

\* response.raise_for_status() raises for 4xx and 5xx
RaisesForStatus(status) == status >= 400

\* time.sleep(backoff); backoff *= 2; continue
ContinuePath ==
  /\ waits' = Append(waits, backoff)
  /\ backoff' = backoff * 2
  /\ attempt' = attempt + 1
  /\ fpc' = "loop"

\* mutant: the exception is not caught, the call fails at once
ExceptPathNoRetry ==
  /\ fpc' = "raised"
  /\ UNCHANGED <<waits, backoff, attempt>>

\* except Exception: sleep and go on unless this was the last attempt
ExceptPath ==
  IF attempt < max_retries - 1
  THEN /\ waits' = Append(waits, backoff)
       /\ backoff' = backoff * 2
       /\ attempt' = attempt + 1
       /\ fpc' = "loop"
  ELSE /\ fpc' = "raised"
       /\ UNCHANGED <<waits, backoff, attempt>>

\* mutant: range(max_retries + 1)
InLoopOneMore == fpc = "loop" /\ attempt <= max_retries

\* for attempt in range(max_retries)
InLoop == fpc = "loop" /\ attempt < max_retries

\* a 5xx answer or a request that raised
Transient(status) == status = NetworkError \/ status \in 500..599

Seen(status) ==
  /\ nreq1' = nreq1 + 1
  /\ first' = IF first = NoResponse THEN status ELSE first
  /\ n429' = IF status = 429 THEN n429 + 1 ELSE n429
  /\ ntransient' = IF Transient(status) THEN ntransient + 1 ELSE ntransient

\* client.get(url) raises
Hop1Exception ==
  /\ InLoop
  /\ Seen(NetworkError)
  /\ ExceptPath
  /\ UNCHANGED <<pvars, max_retries, nreq2, nfail2, fresult, nlatin1>>

\* 200 and a body that is the payload itself
Hop1Direct ==
  /\ InLoop
  /\ \E body \in Bodies :
       /\ ResponseJson(body) = "ok" /\ ~body.datos
       /\ fresult' = [hop |-> 1, enc |-> body.enc]
  /\ Seen(200)
  /\ fpc' = "returned"
  /\ UNCHANGED <<pvars, max_retries, attempt, backoff, waits, nreq2, nfail2,
                 nlatin1>>

\* 200 and a body response.json() cannot decode
Hop1DecodeError ==
  /\ InLoop
  /\ \E body \in Bodies :
       /\ ResponseJson(body) # "ok"
       /\ nlatin1' = IF body.enc = "latin1" /\ ~body.datos
                     THEN nlatin1 + 1 ELSE nlatin1
  /\ Seen(200)
  /\ ExceptPath
  /\ UNCHANGED <<pvars, max_retries, nreq2, nfail2, fresult>>

\* 429, 500, 502 or 503
Hop1Retriable ==
  /\ InLoop
  /\ \E status \in Statuses :
       /\ RetriableStatus(status)
       /\ Seen(status)
  /\ ContinuePath
  /\ UNCHANGED <<pvars, max_retries, nreq2, nfail2, fresult, nlatin1>>

\* any other status: raise_for_status()
Hop1OtherStatus ==
  /\ InLoop
  /\ \E status \in Statuses :
       /\ status # 200 /\ ~RetriableStatus(status)
       /\ Seen(status)
       /\ IF RaisesForStatus(status)
          THEN ExceptPath
          ELSE /\ attempt' = attempt + 1
               /\ UNCHANGED <<fpc, waits, backoff>>
  /\ UNCHANGED <<pvars, max_retries, nreq2, nfail2, fresult, nlatin1>>

\* the first response is 200 and decodes to a dict with a "datos" key
Envelope == \E body \in Bodies : ResponseJson(body) = "ok" /\ body.datos

\* data_response.json(), with the latin-1 fallback for UnicodeDecodeError
DatosJson(body) ==
  IF ResponseJson(body) = "UnicodeDecodeError"
  THEN Latin1Json(body)
  ELSE ResponseJson(body)

\* 200 with a "datos" URL, and the second request yields the payload
Hop2Ok ==
  /\ InLoop /\ Envelope
  /\ \E body \in Bodies :
       /\ DatosJson(body) = "ok"
       /\ fresult' = [hop |-> 2, enc |-> body.enc]
  /\ Seen(200)
  /\ nreq2' = nreq2 + 1
  /\ fpc' = "returned"
  /\ UNCHANGED <<pvars, max_retries, attempt, backoff, waits, nfail2, nlatin1>>

\* 200 with a "datos" URL, and the second request raises, answers another
\* status or a body that cannot be decoded
Hop2Fail ==
  /\ InLoop /\ Envelope
  /\ \/ \E status \in (Statuses \cup {NetworkError}) : status # 200
     \/ \E body \in Bodies : DatosJson(body) # "ok"
  /\ Seen(200)
  /\ nreq2' = nreq2 + 1
  /\ nfail2' = nfail2 + 1
  /\ ExceptPath
  /\ UNCHANGED <<pvars, max_retries, fresult, nlatin1>>

\* the for loop is over: raise Exception("Failed after ... attempts")
Exhausted ==
  /\ fpc = "loop" /\ attempt >= max_retries
  /\ fpc' = "raised"
  /\ UNCHANGED <<pvars, max_retries, attempt, backoff, waits, nreq1, nreq2,
                 first, n429, nfail2, fresult, ntransient, nlatin1>>

\* ------------------------------------------------------------- specifications
RecordKinds ==
  [fecha : {1, 2}, indicativo : Stations]
    \cup {[fecha |-> 0, indicativo |-> "A"], [fecha |-> 1, indicativo |-> ""]}
StationKinds == [fecha : {0}, indicativo : Stations \cup {""}]

SeqsUpTo(S, n) == UNION {[1..k -> S] : k \in 0..n}

Scenarios ==
  (SeqsUpTo(RecordKinds, MaxRecords) \X {<<>>})
    \cup ({<<>>} \X SeqsUpTo(StationKinds, MaxRecords))
    \cup (SeqsUpTo(RecordKinds, 1) \X SeqsUpTo(StationKinds, 1))

NoRun ==
  /\ files = EmptyArchive
  /\ cmd = "none" /\ pc = "idle" /\ current = 0 /\ batch_end = 0
  /\ todo = <<>> /\ writing = NoKey
  /\ windows = <<>> /\ fetched = <<>> /\ snap = EmptyArchive
  /\ okRuns = {} /\ interrupted = FALSE

NoFetch ==
  /\ max_retries = MAX_RETRIES /\ fpc = "none" /\ attempt = 0
  /\ backoff = INITIAL_BACKOFF /\ nreq1 = 0 /\ nreq2 = 0 /\ waits = <<>>
  /\ first = NoResponse /\ n429 = 0 /\ nfail2 = 0 /\ fresult = NoResult
  /\ ntransient = 0 /\ nlatin1 = 0

\* the archive pipeline over a one- or two-day interval
Init ==
  /\ start_date = 1 /\ end_date \in {1, 2}
  /\ \E sc \in Scenarios : remote = sc[1] /\ inventory = sc[2]
  /\ NoRun /\ NoFetch

Next ==
  \/ \E c \in {"estaciones", "valores"} : StartRun(c)
  \/ EstacionesSkip \/ EstacionesFetch
  \/ WindowSkip \/ WindowFetch \/ RangeDone
  \/ FetchReturns \/ FetchRaises
  \/ SkipEntry \/ OpenEntry \/ DumpEntry \/ PersistDone
  \/ Interrupt

Spec == Init /\ [][Next]_vars

\* the archive pipeline over every interval up to MaxDay
InitPlan ==
  /\ start_date \in 1..MaxDay /\ end_date \in start_date..MaxDay
  /\ remote = <<[fecha |-> start_date, indicativo |-> "A"],
                [fecha |-> start_date + BATCH_SIZE_DAYS, indicativo |-> "A"]>>
  /\ inventory = <<[fecha |-> 0, indicativo |-> "A"]>>
  /\ NoRun /\ NoFetch

SpecPlan == InitPlan /\ [][Next]_vars

\* one call of fetch_with_retry
InitFetch ==
  /\ start_date = 1 /\ end_date = 1 /\ remote = <<>> /\ inventory = <<>>
  /\ NoRun
  /\ max_retries \in 0..MaxRetriesArg /\ fpc = "loop" /\ attempt = 0
  /\ backoff = INITIAL_BACKOFF /\ nreq1 = 0 /\ nreq2 = 0 /\ waits = <<>>
  /\ first = NoResponse /\ n429 = 0 /\ nfail2 = 0 /\ fresult = NoResult
  /\ ntransient = 0 /\ nlatin1 = 0

NextFetch ==
  \/ Hop1Exception \/ Hop1Direct \/ Hop1DecodeError \/ Hop1Retriable
  \/ Hop1OtherStatus \/ Hop2Ok \/ Hop2Fail \/ Exhausted

SpecFetch == InitFetch /\ [][NextFetch]_vars

\* the same call when the interpreter keeps running it: an iteration that
\* can be taken is taken (time.sleep returns, the client has a timeout)
SpecFetchFair == SpecFetch /\ WF_vars(NextFetch)


\* ------------------------------------------------------------------- C1
WindowsPartition(ws) ==
  \A i \in 1..Len(ws) :
    /\ ws[i][1] <= ws[i][2]
    /\ ws[i][2] - ws[i][1] + 1 <= 15
    /\ ws[i][2] <= end_date
    /\ IF i = 1 THEN ws[i][1] = start_date ELSE ws[i][1] = ws[i - 1][2] + 1

\* C1: the windows process_date_range generates for start <= end are
\* contiguous, non-overlapping, start at start, end at end once the range is
\* done, and span at most 15 days each; 2024-01-01..2024-01-20 (days 1..20)
\* yields exactly 01-01..01-15 and 01-16..01-20.
C1_WindowPartition ==
  (cmd = "valores" /\ start_date <= end_date) =>
    /\ WindowsPartition(windows)
    /\ pc = "done" => (windows # <<>> /\ Last(windows)[2] = end_date)
    /\ (pc = "done" /\ start_date = 1 /\ end_date = 20) =>
         windows = << <<1, 15>>, <<16, 20>> >>

C1_Witness ==
  /\ cmd = "valores" /\ pc = "done"
  /\ start_date = 1 /\ end_date = 20
  /\ windows = << <<1, 15>>, <<16, 20>> >>


\* ------------------------------------------------------------------- C2
WellFormed(r) == r.fecha # 0 /\ r.indicativo # ""

\* the (date, station) entities the remote holds for the window lo..hi
Entities(lo, hi) ==
  LET p == WindowPayload(lo, hi)
  IN {DayKey(p[i].fecha, p[i].indicativo) :
        i \in {j \in 1..Len(p) : WellFormed(p[j])}}

\* the record an uninterrupted run stores at k: the last one of the payload
EntityContent(k) ==
  LET hits == {i \in 1..Len(remote) :
                 DayKey(remote[i].fecha, remote[i].indicativo) = k}
  IN CHOOSE i \in hits : \A j \in hits : j <= i

PartlyArchived(lo, hi, fs) ==
  /\ \E k \in Entities(lo, hi) : k \in DOMAIN fs
  /\ \E k \in Entities(lo, hi) : k \notin DOMAIN fs

NoPartialFile == \A k \in DOMAIN files : files[k] # Partial

SomeDateEmpty(lo, hi, fs) ==
  \E d \in lo..hi : \A k \in DOMAIN fs : ~(k[1] = "val" /\ k[2] = d)

AtWindow == cmd = "valores" /\ pc = "window" /\ current <= end_date

\* the persist pass of a fetched window is over: the archive is what it was
\* when the window was reached (snap) plus exactly the missing entities
PersistedExactlyMissing ==
  (cmd = "valores" /\ pc = "persist" /\ todo = <<>>) =>
    /\ DOMAIN files = DOMAIN snap \cup Entities(current, batch_end)
    /\ \A k \in DOMAIN snap : files[k] = snap[k]
    /\ \A k \in DOMAIN files \ DOMAIN snap : files[k] = EntityContent(k)

C3_PartialNeverExists ==
  /\ \A k \in DOMAIN files :
       (files[k] = Partial /\ k # writing) => ShouldWrite(k)
  /\ \A d \in start_date..end_date :
       check_date_exists(d) =>
         \E k \in DOMAIN files :
           k[1] = "val" /\ k[2] = d /\ (files[k] # Partial \/ k = writing)
  /\ AnyStationFile =>
       \E k \in DOMAIN files :
         k[1] = "est" /\ (files[k] # Partial \/ k = writing)

\* ------------------------------------------------------------------- C4
\* C4: a call (with the default max_retries) that has been answered by 429
\* only goes on asking: it never fails while every response so far was a 429.
C4_RateLimitAlwaysRetried ==
  ~(max_retries = MAX_RETRIES /\ fpc = "raised" /\ nreq1 > 0 /\ n429 = nreq1)

\* ------------------------------------------------------------------- C5
ClientError(status) == status \in 400..499 /\ status # 429

\* C5: when the first response (to a call with the default max_retries) is a
\* 4xx other than 429 the call has failed at once: one request, no wait.
C5_ClientErrorAborts ==
  (max_retries = MAX_RETRIES /\ ClientError(first)) =>
    (fpc = "raised" /\ nreq1 = 1 /\ waits = <<>>)

\* ------------------------------------------------------------------- C6
\* every date of lo..hi has some file in its day directory
EveryDateArchived(lo, hi) ==
  \A d \in lo..hi : \E k \in DOMAIN files : k[1] = "val" /\ k[2] = d

\* C6: a window all of whose dates have a file is left without a fetch and
\* without a write; any other window is fetched.
C6_SkipCorrectness ==
  [][(AtWindow /\ pc' # "idle") =>
       LET w == Last(windows')
       IN IF EveryDateArchived(w[1], w[2])
          THEN /\ pc' = "window" /\ current' = w[2] + 1
               /\ files' = files /\ fetched' = fetched
          ELSE /\ pc' = "fetch" /\ fetched' = Append(fetched, w)]_vars

C6_Witness ==
  /\ cmd = "valores" /\ pc = "window" /\ end_date = 2 /\ current = 3
  /\ fetched = <<>> /\ windows = << <<1, 2>> >>
  /\ PartlyArchived(1, 2, files)

\* ------------------------------------------------------------------- C7
\* C7: whatever was interrupted before (here: between two file writes, every
\* file on disk being complete), a run of process_date_range that ends leaves
\* every (date, station) entity of the interval in the archive.
C7_RestartSafe ==
  (cmd = "valores" /\ pc = "done" /\ NoPartialFile) =>
    \A k \in Entities(start_date, end_date) : k \in DOMAIN files

\* ------------------------------------------------------------------- C8
\* C8: a file that exists is never changed or removed; the only change to a
\* file is json.dump filling the one the run has just created.
C8_AppendOnly ==
  [][\A k \in DOMAIN files :
       /\ k \in DOMAIN files'
       /\ \/ files'[k] = files[k]
          \/ k = writing /\ files[k] = Partial /\ files'[k] # Partial]_vars

C8_Witness ==
  /\ pc = "persist" /\ todo # <<>> /\ writing = NoKey
  /\ PathExists(Head(todo).key) /\ files[Head(todo).key] # Partial
  /\ Len(remote) = MaxRecords

\* ------------------------------------------------------------------- C9
\* C9: once a command has run to its end, a later run of it writes nothing:
\* file set and contents stay what they were.
C9_Idempotent ==
  [][(cmd \in okRuns /\ Running) => files' = files]_vars

C9_Witness ==
  /\ cmd \in okRuns /\ pc = "persist" /\ todo # <<>> /\ ~interrupted
  /\ files # EmptyArchive

\* ------------------------------------------------------------------ C10
AllRecordsArchived(lo, hi) ==
  LET p == WindowPayload(lo, hi)
  IN \A i \in 1..Len(p) :
       WellFormed(p[i]) /\ DayKey(p[i].fecha, p[i].indicativo) \in DOMAIN files

EveryDateHasRecord(lo, hi) ==
  \A d \in lo..hi : \E i \in 1..Len(remote) : remote[i].fecha = d

\* C10 as stated: after a completed run, no window whose records are all
\* archived is fetched again.
C10_Original ==
  (cmd = "valores" /\ pc = "fetch" /\ "valores" \in okRuns) =>
    ~AllRecordsArchived(current, batch_end)

\* C10 amended: no window is fetched whose records are all archived and for
\* every date of which the remote has a record.
C10_NoRefetch ==
  (cmd = "valores" /\ pc = "fetch") =>
    ~(AllRecordsArchived(current, batch_end)
        /\ EveryDateHasRecord(current, batch_end))

C10_Witness ==
  /\ cmd = "valores" /\ pc = "window" /\ "valores" \in okRuns
  /\ end_date = 2 /\ current = 3 /\ fetched = <<>>
  /\ AllRecordsArchived(1, 2) /\ EveryDateHasRecord(1, 2)

\* ------------------------------------------------------------------ C11
RECURSIVE Pow2(_)
Pow2(n) == IF n = 0 THEN 1 ELSE 2 * Pow2(n - 1)

ExponentialWaits ==
  \A i \in 1..Len(waits) : waits[i] = INITIAL_BACKOFF * Pow2(i - 1)

OnlyTransient == ntransient = nreq1 /\ nreq2 = 0

\* C11: while every first-hop request ends in a 5xx answer or a network
\* error the call goes on with the next attempt after a wait that doubles
\* each time, it never returns, and it fails only when exactly max_retries
\* requests have been made; a call that returns after k - 1 such failures
\* has made k <= max_retries requests and hands back a payload.
C11_TransientRetried ==
  /\ OnlyTransient =>
       /\ fpc # "returned"
       /\ nreq1 <= max_retries
       /\ ExponentialWaits
       /\ (fpc = "loop" => Len(waits) = nreq1)
       /\ (fpc = "raised" => nreq1 = max_retries)
  /\ (fpc = "returned" /\ ntransient = nreq1 - 1) =>
       /\ nreq1 <= max_retries
       /\ fresult # NoResult

C11_Witness ==
  /\ fpc = "raised" /\ max_retries = MAX_RETRIES
  /\ OnlyTransient /\ nreq1 = MAX_RETRIES /\ first = 504
  /\ waits = <<1, 2, 4, 8>>

\* ------------------------------------------------------------------ C12
\* first-hop requests that did not lead to a second-hop request
Hop1Failures == nreq1 - nreq2

\* C12: each hop has a retry budget of its own: a call with the default
\* budget whose first-hop failures were all 5xx answers or network errors
\* fails only when the first hop alone or the second hop alone has failed
\* max_retries times.
C12_IndependentBudgets ==
  (max_retries = MAX_RETRIES /\ fpc = "raised"
     /\ ntransient = Hop1Failures /\ nfail2 > 0) =>
    (Hop1Failures >= max_retries \/ nfail2 >= max_retries)

\* ------------------------------------------------------------------ C13
\* C13: a fetch of a window either hands its payload to the persist pass
\* or ends the run; the step that ends it writes nothing and touches no
\* file, and once the run has failed nothing happens but the start of a new
\* run: no later window is checked or fetched and the archive stays as it is.
C13_AbortNoRollback ==
  [][/\ (cmd = "valores" /\ pc = "fetch") =>
          /\ pc' \in {"persist", "failed", "idle"}
          /\ files' = files /\ windows' = windows /\ fetched' = fetched
          /\ current' = current
     /\ (cmd = "valores" /\ pc = "failed") =>
          /\ files' = files
          /\ \/ pc' = "failed" /\ windows' = windows /\ fetched' = fetched
             \/ pc' \in {"window", "check"} /\ windows' = <<>>
                  /\ fetched' = <<>>]_vars

C13_Witness ==
  /\ cmd = "valores" /\ pc = "failed" /\ files = snap
  /\ Len(windows) = 2 /\ Len(fetched) = 2 /\ batch_end < end_date
  /\ DOMAIN files = {DayKey(start_date, "A")}
  /\ files[DayKey(start_date, "A")] = 1

\* ------------------------------------------------------------------ C14
SomeStationArchived == \E k \in DOMAIN files : k[1] = "est"

StationCodes == {inventory[i].indicativo : i \in 1..Len(inventory)}

\* the file of every station code holds the last inventory record of the code
OneFilePerStation(fs) ==
  /\ {k \in DOMAIN fs : k[1] = "est"} = {StationKey(c) : c \in StationCodes}
  /\ \A i \in 1..Len(inventory) :
       (\A j \in (i + 1)..Len(inventory) :
          inventory[j].indicativo # inventory[i].indicativo)
         => fs[StationKey(inventory[i].indicativo)] = i

\* C14: with some station file in the archive cmd_estaciones ends with no
\* fetch and no write; with none it makes one fetch, never a second one, and
\* the persist pass that follows a returned inventory of stations that all
\* carry a code leaves one file per station code and touches nothing else.
C14_StationShortCircuit ==
  [][/\ (cmd = "estaciones" /\ pc = "check") =>
          /\ files' = files
          /\ IF SomeStationArchived
             THEN pc' \in {"done", "idle"} /\ fetched' = <<>>
             ELSE \/ pc' = "fetch" /\ fetched' = <<<<0, 0>>>>
                  \/ pc' = "idle" /\ fetched' = <<>>
     /\ cmd' = "estaciones" => Len(fetched') <= 1
     /\ (cmd = "estaciones" /\ pc = "persist" /\ pc' = "done") =>
          /\ OneFilePerStation(files')
          /\ \A k \in DOMAIN files' : k[1] # "est" => k \in DOMAIN snap]_vars

C14_Witness ==
  /\ cmd = "estaciones" /\ pc = "done" /\ fetched = <<>>
  /\ StationCodes = {"A", "B"}
  /\ StationKey("A") \in DOMAIN files /\ StationKey("B") \notin DOMAIN files

\* ------------------------------------------------------------------ C15
SeqRange(s) == {s[i] : i \in 1..Len(s)}

\* C15: the persist pass that follows a returned payload holds no entry of
\* a record without fecha or without indicativo, goes through the same
\* entries as for the payload without those records, and is not preceded by
\* another fetch; when the pass is over the window's new files are those of
\* the well-formed records.
C15_MalformedDropped ==
  [][/\ (cmd = "valores" /\ pc = "fetch" /\ pc' = "persist") =>
          LET p == WindowPayload(current, batch_end)
          IN /\ \A e \in SeqRange(todo') :
                  /\ WellFormed(remote[e.id])
                  /\ e.key = DayKey(remote[e.id].fecha,
                                    remote[e.id].indicativo)
             /\ SeqRange(todo') =
                  SeqRange(BatchTodo(group_by_date(SelectSeq(p, WellFormed))))
             /\ fetched' = fetched
     /\ (cmd = "valores" /\ pc = "persist" /\ pc' = "window") =>
          DOMAIN files = DOMAIN snap \cup Entities(current, batch_end)]_vars

C15_Witness ==
  /\ cmd = "valores" /\ pc = "persist" /\ todo = <<>>
  /\ remote = <<[fecha |-> 1, indicativo |-> ""],
                [fecha |-> 0, indicativo |-> "A"],
                [fecha |-> 1, indicativo |-> "A"]>>
  /\ DOMAIN files = {DayKey(1, "A")} /\ files[DayKey(1, "A")] = 3

\* ------------------------------------------------------------------ C16
\* C16: a call with the default budget does not fail when each of its
\* first-hop requests was answered 200 with a direct payload that is
\* latin-1 JSON: the fallback decodes it and the payload is returned.
C16_Latin1DirectDecoded ==
  ~(max_retries = MAX_RETRIES /\ fpc = "raised"
      /\ nreq1 > 0 /\ nlatin1 = nreq1)

\* ------------------------------------------------------------------ C17
\* C17: within a fetched window the files still to be written are in
\* non-decreasing order of their dates, whatever the order of the payload.
C17_DatesInOrder ==
  (cmd = "valores" /\ pc = "persist") =>
    \A i, j \in 1..Len(todo) : i < j => todo[i].key[2] <= todo[j].key[2]

\* ------------------------------------------------------------------ C18
\* C18: in a call with the default budget the k-th wait lasts
\* INITIAL_BACKOFF * 2^(k-1) and waits happen only between two attempts:
\* there are fewer waits than attempts allowed, none after the last one.
C18_BackoffSchedule ==
  max_retries = MAX_RETRIES =>
    /\ ExponentialWaits
    /\ Len(waits) <= max_retries - 1

\* ------------------------------------------------------------------ C19
\* C19: a call never makes more than max_retries first-hop requests nor
\* more than max_retries second-hop requests, with max_retries = 0 it makes
\* no request and does not return, and every call ends, returning a payload
\* or raising an error.
C19_Terminates ==
  /\ [](/\ nreq1 <= max_retries
        /\ nreq2 <= max_retries
        /\ (max_retries = 0 => nreq1 = 0 /\ fpc # "returned")
        /\ (fpc = "returned" <=> fresult # NoResult))
  /\ <>(fpc \in {"returned", "raised"})

C19_Witness ==
  /\ fpc = "raised" /\ max_retries = MAX_RETRIES
  /\ nreq1 = MAX_RETRIES /\ nreq2 = MAX_RETRIES

\* ------------------------------------------------------------------ C20
\* the pair k has several records in the payload of the window lo..hi
Duplicated(k, lo, hi) ==
  LET p == WindowPayload(lo, hi)
  IN \E i, j \in 1..Len(p) :
       /\ i < j
       /\ WellFormed(p[i]) /\ DayKey(p[i].fecha, p[i].indicativo) = k
       /\ WellFormed(p[j]) /\ DayKey(p[j].fecha, p[j].indicativo) = k

\* C20: the persist pass has at most one entry per (date, station) pair and
\* the entry is the last record of the pair in payload order; when the pass
\* is over a pair with several records holds that last record if it had no
\* file, and what its file held before if it had one.
C20_LastDuplicateWins ==
  (cmd = "valores" /\ pc = "persist") =>
    /\ \A i, j \in 1..Len(todo) : i # j => todo[i].key # todo[j].key
    /\ \A i \in 1..Len(todo) : todo[i].id = EntityContent(todo[i].key)
    /\ todo = <<>> =>
         \A k \in Entities(current, batch_end) :
           Duplicated(k, current, batch_end) =>
             /\ k \in DOMAIN files
             /\ files[k] = IF k \in DOMAIN snap THEN snap[k]
                           ELSE EntityContent(k)

C20_Witness ==
  /\ cmd = "valores" /\ pc = "persist" /\ todo = <<>>
  /\ remote = <<[fecha |-> 1, indicativo |-> "A"],
                [fecha |-> 1, indicativo |-> "B"],
                [fecha |-> 1, indicativo |-> "A"]>>
  /\ snap = EmptyArchive
  /\ DOMAIN files = {DayKey(1, "A"), DayKey(1, "B")}
  /\ files[DayKey(1, "A")] = 3 /\ files[DayKey(1, "B")] = 2

====
